---- MODULE Spec2Model ----
(***************************************************************************)
(* A model of the reactive WeatherService of the openWeather application   *)
(* (src/src/app/weather.service.ts, the class that starts at line 81).     *)
(*                                                                         *)
(* The service owns three BehaviorSubjects (weather, forecast, loading),   *)
(* a debounced city-name channel and a de-duplicated coordinate channel.   *)
(* Each channel ends in a switchMap that issues one HTTP request per       *)
(* accepted value; a successful response is written to weatherSubject and  *)
(* starts a forecast request through fetchForecast.                        *)
(*                                                                         *)
(* Operator semantics are those of RxJS 7 (the version an Angular 17+      *)
(* project, which this one is, installs): switchMap unsubscribes the       *)
(* previous inner observable BEFORE it calls the projection, finalize runs *)
(* its callback when its subscriber is torn down, shareReplay(1) keeps the *)
(* HTTP request alive after its only subscriber has left.                  *)
(*                                                                         *)
(* Time is counted in milliseconds and only the debounce timer is timed;   *)
(* network responses arrive at any moment.                                 *)
(***************************************************************************)
EXTENDS Integers, Sequences, FiniteSets, TLC

\* ------------------------------------------------------------------ bounds
\* Number of weather requests (hence of forecast requests) one behaviour issues.
MaxReq == 2
\* Granularity of the passage of time, in milliseconds.
TickMs == 250
\* Length of the longest sample series handed to processForecast.
MaxLen == 6
\* Length of the longest series of the long family, whose samples all report
\* one temperature: long enough for more than 8 samples after now.
MaxLong == 10
\* Length of the longest hourly series handed to the graph.
MaxPoints == 4
\* Longest sample series the daily chart is drawn from.
MaxChart == 3

\* --------------------------------------------------------- program constants
\* debounceTime(500)
DebounceMs == 500
\* .slice(0, 5): daily buckets kept
DailyLimit == 5
\* hourlyCount < 8: hourly samples kept
HourlyLimit == 8
\* new Date(item.dt * 1000): dt is in seconds, Date counts milliseconds
MsPerSec == 1000
\* toISOString().split('T')[0]: length of one UTC calendar day, in milliseconds
MsPerDay == 86400000
\* localTime.getTimezoneOffset() * 60000: getTimezoneOffset counts minutes
MsPerMinute == 60000
\* The graph's quantities (temperatures, percentages, speeds, pressures and
\* the paddings applied to them) are counted in tenths of their unit, so that
\* 1.5 is 15; pixel coordinates are exact fractions.
\* return { min: 0, max: 10, ... } for no data
EmptyMin == 0
EmptyMax == 100
\* min - 1.5, max + 1.5
TempPad == 15
\* Math.max(min - 5, 0), Math.min(max + 5, 100)
HumidityPad == 50
HumidityFloor == 0
HumidityCeil == 1000
\* Math.max(min - 2, 0) without a range, Math.max(min - 1, 0) with one; max + 2
WindPadFlat == 20
WindPad == 10
WindPadUp == 20
WindFloor == 0
\* min - 3, max + 3
PressurePad == 30
\* max = min + 10
MinSpan == 100
\* max - min || 10
FallbackRange == 100
\* 270 - ((value - min) / range * 220)
YBase == 270
YSpan == 220
\* 50 + index * spacing, totalWidth = 1100
XLeft == 50
TotalWidth == 1100
\* bottomY = 320
BottomY == 320
\* DailyForecastComponent: getMaxTemp and getMinTemp of no bucket; getYPosition
\* 250 - ((temp - minTemp) / range * 200), range = maxTemp - minTemp || 10;
\* x = 50 + index * 100
DailyEmptyMax == 30
DailyEmptyMin == 0
DailyFallbackRange == 10
DailyYBase == 250
DailyYSpan == 200
DailyXLeft == 50
DailyXStep == 100

\* ------------------------------------------------------------ input domains
\* City names are sequences of characters, so that trim() is computed.
Names == { <<" ">>, <<"a">>, <<"a", "b">> }
Lats == {0, 1}
Lons == {0, 1}
Coords == [lat : Lats, lon : Lons]
Places == {[lat |-> 0, lon |-> 0], [lat |-> 1, lon |-> 1]}
\* What an HTTP request resolves to.
WeatherOutcomes == {"ok", "fail"}
ForecastOutcomes == {"ok", "empty", "fail"}
\* What navigator.geolocation answers: a position, an error, or it is absent.
GeoOutcomes == {"position", "denied", "unsupported"}

\* Temperatures a forecast sample reports.
Temps == {-3, 12}
\* The temperature of the samples of the long family.
SteadyTemps == {12}
\* The temperatures of the samples the daily chart is drawn from: below zero,
\* zero, above zero.
ChartTemps == {-3, 0, 5}
\* Seconds from one sample of a series to the next: half a day later, a day
\* later, or a day earlier (a series that is not in chronological order).
SecPerDay == MsPerDay \div MsPerSec
Steps == {SecPerDay \div 2, SecPerDay, -SecPerDay}
\* dt of the first sample of a series, late enough that no sample is
\* before 1970-01-01.
FirstDt == MaxLong * SecPerDay
\* Clock readings (ms) at which processForecast runs: just before, at, and
\* just after the first sample of the series.
Nows == {FirstDt * MsPerSec - 1, FirstDt * MsPerSec, FirstDt * MsPerSec + 1}

\* selectedDataType: 'temp' | 'humidity' | 'wind' | 'pressure'
DataTypes == {"temp", "humidity", "wind", "pressure"}
\* The forecast items the graph is given (in tenths): a frosty calm hour at
\* 0 % humidity, a mild one at 100 %, readings beyond the percentage range on
\* either side, and a middling one.
Reading(temp, humidity, pressure, speed) ==
  [main |-> [temp |-> temp, humidity |-> humidity, pressure |-> pressure],
   wind |-> [speed |-> speed]]
Readings ==
  { Reading(-35, 0, 9900, 0),
    Reading(120, 1000, 10130, 5),
    Reading(125, 1100, 10135, 120),
    Reading(0, -10, 10130, 15),
    Reading(120, 500, 10000, 0) }

\* What calculateCityTime reads: the device's clock (ms since the epoch), the
\* device's getTimezoneOffset() (minutes, positive west of UTC), and the
\* city's timezone (seconds east of UTC).
DeviceNows == {0, 1, 999, 1000, 59999, 3600000, 86399999, 86400000}
ZoneOffsets == {-330, -60, 0, 300}
Timezones == {-18000, 0, 3600, 19800}

\* What the page's clocks read as time passes: later readings of the device's
\* clock, and the getTimezoneOffset() of a device on UTC or west of it.
LaterNows == {1000, 59999, 3600000}
DeviceZones == {0, 300}
\* The timezone field of a weather response: << seconds >>, or << >> when the
\* response has none.
ApiTimezones == { << t >> : t \in Timezones } \cup { << >> }

Min(a, b) == IF a < b THEN a ELSE b

\* ------------------------------------------------------------------- state
VARIABLES
  weather,      \* weatherSubject's value: a snapshot, or NoWeather (null)
  forecast,     \* forecastSubject's value: a forecast, or NoForecast (null)
  loading,      \* loadingSubject's value
  debActive,    \* debounceTime: a timer task is scheduled
  debLast,      \* debounceTime: lastValue
  debLeft,      \* debounceTime: milliseconds until the scheduled task is due
  cityPrev,     \* distinctUntilChanged of citySearch$: {} or {last key}
  coordsPrev,   \* distinctUntilChanged of coordsSearch$: {} or {last key}
  wreq,         \* the weather HTTP requests, in the order they were issued
  nextW,        \* index of the next weather request
  freq,         \* the forecast HTTP requests, in the order they were issued
  nextF,        \* index of the next forecast request
  destroyed,    \* destroy$ has emitted
  lastCity,     \* history: name and age (ms) of the last searchByCity call
                \* that reached the debounce, and whether it came while an
                \* earlier name was waiting in the debounce (a burst)
  suppressed,   \* history: the input the last step dropped, if it dropped one
  list,           \* TodayComponent: the sample series processForecast is given
  now,            \* TodayComponent: clock (ms) read by the last processForecast
                  \* call, 0 before the first call
  dailyForecast,  \* TodayComponent.dailyForecast
  hourlyForecast, \* TodayComponent.hourlyForecast, which the page binds to
                  \* HourlyForecastComponent.hourlyForecast
  selectedDataType, \* HourlyForecastComponent.selectedDataType
  graph,          \* what the graph's template was last given: the scale, the
                  \* polyline's and the polygon's points attribute
  dailyGraph,     \* what the daily chart's template was last given: the ends of
                  \* the axis and the points attributes of the two curves
  clock,          \* the last calculateCityTime call: what it read and returned
  device,         \* what new Date() gives: getTime() and getTimezoneOffset()
  snapshot,       \* the latest value of weather$ held by cityTimestamp$'s
                  \* combineLatest: whether it is a snapshot, and its timezone
  fieldWeather,   \* TodayComponent.weather (the field, not weather$)
  timerSubscription,   \* TodayComponent.timerSubscription
  cityTimestamp,       \* TodayComponent.cityTimestamp (getTime())
  cityTimestampStream, \* the last value cityTimestamp$ gave, if any
  componentDestroyed   \* TodayComponent.ngOnDestroy has run

\* The fields of TodayComponent that processForecast reads and writes.
componentVars == << list, now, dailyForecast, hourlyForecast >>
\* The fields of HourlyForecastComponent besides hourlyForecast, and the clock.
graphVars == << selectedDataType, graph, dailyGraph >>
\* The page's two clocks: the timer of ngOnInit and cityTimestamp$.
tickVars == << device, snapshot, fieldWeather, timerSubscription, cityTimestamp,
               cityTimestampStream, componentDestroyed >>
clockVars == << clock, tickVars >>

vars == << weather, forecast, loading, debActive, debLast, debLeft, cityPrev,
           coordsPrev, wreq, nextW, freq, nextF, destroyed, lastCity, suppressed,
           list, now, dailyForecast, hourlyForecast, selectedDataType, graph,
           dailyGraph, clock,
          device, snapshot, fieldWeather, timerSubscription, cityTimestamp,
          cityTimestampStream, componentDestroyed >>

ReqIds == 1 .. MaxReq

\* WeatherData | null : the fields the service itself reads (coord), plus the
\* request the snapshot is the response of.
NoWeather == [req |-> 0, coord |-> [lat |-> 0, lon |-> 0]]
\* ForecastData | null
NoForecast == [req |-> 0, coord |-> [lat |-> 0, lon |-> 0], forW |-> 0]

FreeW == [chan |-> "none", st |-> "free", city |-> <<>>, lat |-> 0, lon |-> 0]
\* A request whose subscriber has left or been served: the closure holding its
\* query is released, its channel and what became of it are remembered.
Closed(r, st) == [chan |-> r.chan, st |-> st, city |-> <<>>, lat |-> 0, lon |-> 0]
FreeF == [st |-> "free", coord |-> [lat |-> 0, lon |-> 0], forW |-> 0]

\* ---------------------------------------------------------- pure operators
IsWs(c) == c \in {" ", "\t", "\n"}

RECURSIVE TrimStart(_)
TrimStart(s) ==
  IF s = <<>> THEN s
  ELSE IF IsWs(Head(s)) THEN TrimStart(Tail(s)) ELSE s

RECURSIVE TrimEnd(_)
TrimEnd(s) ==
  IF s = <<>> THEN s
  ELSE IF IsWs(s[Len(s)]) THEN TrimEnd(SubSeq(s, 1, Len(s) - 1)) ELSE s

\* String.prototype.trim
Trim(s) == TrimEnd(TrimStart(s))

\* filter((city: string) => city.trim().length > 0)
NonBlankNoTrim(city) == Len(city) > 0
NonBlank(city) == Len(Trim(city)) > 0

\* distinctUntilChanged() on the city channel: the value passes when it is the
\* first one or differs (===) from the last value that passed.
CityChangedAlways(prev, city) == TRUE
CityChangedOrFailed(prev, city) ==
  \/ city \notin prev
  \/ \E i \in ReqIds : /\ wreq[i].chan = "city"
                        /\ wreq[i].st = "fail"
                        /\ \A j \in ReqIds : j > i => wreq[j].chan # "city"
CityChanged(prev, city) == city \notin prev

\* distinctUntilChanged((prev, curr) => prev.lat === curr.lat && prev.lon === curr.lon)
SameCoordsLatOnly(p, c) == p.lat = c.lat
SameCoords(p, c) == p.lat = c.lat /\ p.lon = c.lon

CoordsChanged(prev, c) == \A p \in prev : ~SameCoords(p, c)

\* The request a channel's switchMap is subscribed to, if any.
Inner(w, ch) == { i \in ReqIds : w[i].chan = ch /\ w[i].st = "inflight" }

\* switchMap leaves its previous inner observable: the subscriber is gone but
\* shareReplay(1) keeps the HTTP request running, its response reaches nobody.
UnsubscribeNever(w, ch) == w
Unsubscribe(w, ch) ==
  [ i \in ReqIds |-> IF i \in Inner(w, ch) THEN Closed(w[i], "stale") ELSE w[i] ]

\* finalize(() => this.loadingSubject.next(false)) when the inner observable
\* settles with the given outcome.
LoadingAfterSuccessOnly(l, outcome) == IF outcome = "ok" THEN FALSE ELSE l
LoadingAfterSettle(l, outcome) == FALSE

\* filter((data: WeatherData | null) => data !== null) after catchError has
\* turned an error into null: only a successful response reaches subscribe.
DeliveredAlways(outcome) == TRUE
Delivered(outcome) == outcome = "ok"

\* fetchForecast's subscribe callback, if (forecast) forecastSubject.next:
\* the value of forecastSubject after forecast request k resolved. An error
\* has become null, an empty list never left the filter of the request.
StoredForecastWhatever(f, k, outcome) ==
  [req |-> k, coord |-> freq[k].coord, forW |-> freq[k].forW]
StoredForecastNoGuard(f, k, outcome) ==
  IF outcome = "ok" THEN [req |-> k, coord |-> freq[k].coord, forW |-> freq[k].forW]
  ELSE IF outcome = "fail" THEN NoForecast ELSE f
StoredForecast(f, k, outcome) ==
  IF outcome = "ok" THEN [req |-> k, coord |-> freq[k].coord, forW |-> freq[k].forW]
  ELSE f

\* history: the operation that dropped its input, why, and the coordinates
\* the dedup compared (0 otherwise)
Dropped(op, why, lat, lon) == [op |-> op, why |-> why, lat |-> lat, lon |-> lon]
NotDropped == Dropped("none", "none", 0, 0)

\* ------------------------------------------------ processForecast's parts
\* ForecastItem: dt (seconds) and main, of which the temperatures are kept.
\* A sample of the API reports its own temperature as its temp_min/temp_max.
Sample(dt, temp) ==
  [dt |-> dt, main |-> [temp |-> temp, temp_max |-> temp, temp_min |-> temp]]

\* new Date(item.dt * 1000).getTime()
GetTime(item) == item.dt * MsPerSec

\* date.toISOString().split('T')[0]: the UTC calendar date of the sample.
\* The date is kept as the number of whole days since 1970-01-01, of which
\* the string YYYY-MM-DD is a one-to-one, order-preserving rendering.
DateString(item) == GetTime(item) \div MsPerDay

\* if (!dailyMap.has(k)) dailyMap.set(k, []); dailyMap.get(k).push(item)
\* A Map keeps its entries in the order their keys were first set.
MapPush(m, k, item) ==
  IF \E i \in DOMAIN m : m[i].key = k
    THEN [i \in DOMAIN m |->
            IF m[i].key = k THEN [m[i] EXCEPT !.items = Append(@, item)] ELSE m[i]]
    ELSE Append(m, [key |-> k, items |-> << item >>])

\* dailyMap after the loop over the first n samples
RECURSIVE DailyMap(_, _)
DailyMap(l, n) ==
  IF n = 0 THEN <<>>
  ELSE MapPush(DailyMap(l, n - 1), DateString(l[n]), l[n])

\* date.getTime() > now.getTime()
IsFutureOrNow(item, nowMs) == GetTime(item) >= nowMs
IsFuture(item, nowMs) == GetTime(item) > nowMs

\* hourlyCount < 8, where hourlyCount is the number of items pushed so far
HasRoomAlways(h) == TRUE
HasRoom(h) == Len(h) < HourlyLimit

\* The loop as it would be if hourlyCount counted every sample read: the
\* future ones among the first 8 samples.
HourlyAmongFirst(l, n, nowMs) ==
  SelectSeq(SubSeq(l, 1, Min(n, HourlyLimit)), LAMBDA item : IsFuture(item, nowMs))

\* hourlyForecast after the loop over the first n samples (hourlyCount is
\* its length)
RECURSIVE Hourly(_, _, _)
Hourly(l, n, nowMs) ==
  IF n = 0 THEN <<>>
  ELSE LET h == Hourly(l, n - 1, nowMs)
       IN IF IsFuture(l[n], nowMs) /\ HasRoom(h)
            THEN Append(h, l[n])
            ELSE h

\* Array.prototype.slice(from, to)
SliceAll(s, from, to) == s
Slice(s, from, to) == SubSeq(s, from + 1, Min(to, Len(s)))

\* Math.max(...temps), Math.min(...temps)
MathMaxFirst(temps) == temps[1]
MathMax(temps) ==
  CHOOSE t \in { temps[i] : i \in DOMAIN temps } : \A i \in DOMAIN temps : t >= temps[i]
MathMin(temps) ==
  CHOOSE t \in { temps[i] : i \in DOMAIN temps } : \A i \in DOMAIN temps : t <= temps[i]

\* The .map callback: the first item of the day with temp_max and temp_min
\* replaced by the extremes of the day's temperatures.
BucketOfLastItem(entry) ==
  LET items == entry.items
      temps == [i \in DOMAIN items |-> items[i].main.temp]
      baseItem == items[Len(items)]
  IN [baseItem EXCEPT !.main = [@ EXCEPT !.temp_max = MathMax(temps),
                                         !.temp_min = MathMin(temps)]]
Bucket(entry) ==
  LET items == entry.items
      temps == [i \in DOMAIN items |-> items[i].main.temp]
      baseItem == items[1]
  IN [baseItem EXCEPT !.main = [@ EXCEPT !.temp_max = MathMax(temps),
                                         !.temp_min = MathMin(temps)]]

\* Array.from(dailyMap.entries()).slice(0, 5).map(...)
Daily(l) ==
  LET kept == Slice(DailyMap(l, Len(l)), 0, DailyLimit)
  IN [i \in DOMAIN kept |-> Bucket(kept[i])]

\* --------------------------------------- HourlyForecastComponent's parts
\* Exact fractions, in lowest terms with a positive denominator, stand for the
\* numbers JavaScript computes with / : two of them are equal exactly when the
\* numbers are.
Abs(n) == IF n < 0 THEN -n ELSE n
RECURSIVE Gcd(_, _)
Gcd(a, b) == IF b = 0 THEN a ELSE Gcd(b, a % b)
Frac(n, d) ==
  LET sn == IF d < 0 THEN -n ELSE n
      sd == Abs(d)
      g == Gcd(Abs(sn), sd)
  IN [num |-> sn \div g, den |-> sd \div g]
Whole(n) == [num |-> n, den |-> 1]
FracLess(a, b) == a.num * b.den < b.num * a.den

\* A string is a sequence of tokens: the text of a number (template literal
\* ${x}, which gives different texts to different numbers), or one separator
\* character.
NumText(f) == << [sep |-> "", num |-> f] >>
SepText(c) == << [sep |-> c, num |-> Whole(0)] >>

\* Array.prototype.join(sep)
RECURSIVE Join(_, _)
Join(parts, c) ==
  IF Len(parts) = 0 THEN <<>>
  ELSE IF Len(parts) = 1 THEN parts[1]
  ELSE parts[1] \o SepText(c) \o Join(Tail(parts), c)

\* String.prototype.split(sep): the pieces between the separators; the empty
\* string gives one empty piece.
RECURSIVE Split(_, _)
Split(str, c) ==
  IF \A i \in DOMAIN str : str[i].sep # c
    THEN << str >>
    ELSE LET i == CHOOSE k \in DOMAIN str :
                    str[k].sep = c /\ \A j \in 1 .. k - 1 : str[j].sep # c
         IN << SubSeq(str, 1, i - 1) >> \o Split(SubSeq(str, i + 1, Len(str)), c)

\* getHourlyDataPoints(): the value of the selected data type of every item
\* (time and icon, which the graph's geometry does not read, are left out).
HourlyDataPoints ==
  IF Len(hourlyForecast) = 0 THEN <<>>
  ELSE [i \in DOMAIN hourlyForecast |->
          LET item == hourlyForecast[i]
          IN [value |-> IF selectedDataType = "temp" THEN item.main.temp
                        ELSE IF selectedDataType = "humidity" THEN item.main.humidity
                        ELSE IF selectedDataType = "wind" THEN item.wind.speed
                        ELSE IF selectedDataType = "pressure" THEN item.main.pressure
                        ELSE 0]]

\* if (max <= min) max = min + 10
WidenNever(min, max) == [min |-> min, max |-> max]
Widen(min, max) ==
  IF max <= min THEN [min |-> min, max |-> min + MinSpan]
                ELSE [min |-> min, max |-> max]

\* wind's lower bound: Math.max(min - 2, 0) if (!hasRange), else
\* Math.max(min - 1, 0)
WindLowSame(min, hasRange) == MathMax(<< min - WindPad, WindFloor >>)
WindLow(min, hasRange) ==
  IF ~hasRange THEN MathMax(<< min - WindPadFlat, WindFloor >>)
               ELSE MathMax(<< min - WindPad, WindFloor >>)

\* getMinMaxValues as it would be if humidity's padding and clamp to 0..100
\* were applied to every data type.
GetMinMaxValuesClampedAll(data) ==
  IF Len(data) = 0 THEN [min |-> EmptyMin, max |-> EmptyMax]
  ELSE LET values == [i \in DOMAIN data |-> data[i].value]
           min == MathMin(values)
           max == MathMax(values)
       IN Widen(MathMax(<< min - HumidityPad, HumidityFloor >>),
                MathMin(<< max + HumidityPad, HumidityCeil >>))

\* getMinMaxValues(data): min and max of the scale (unit and factor, which are
\* labels, are left out)
GetMinMaxValues(data) ==
  IF Len(data) = 0 THEN [min |-> EmptyMin, max |-> EmptyMax]
  ELSE LET values == [i \in DOMAIN data |-> data[i].value]
           min == MathMin(values)
           max == MathMax(values)
           hasRange == max > min
       IN IF selectedDataType = "temp"
            THEN Widen(min - TempPad, max + TempPad)
          ELSE IF selectedDataType = "humidity"
            THEN Widen(MathMax(<< min - HumidityPad, HumidityFloor >>),
                       MathMin(<< max + HumidityPad, HumidityCeil >>))
          ELSE IF selectedDataType = "wind"
            THEN Widen(WindLow(min, hasRange), max + WindPadUp)
          ELSE IF selectedDataType = "pressure"
            THEN Widen(min - PressurePad, max + PressurePad)
          ELSE Widen(min, max)

\* getHourlyYPosition(value)
GetHourlyYPositionUp(value) ==
  LET scale == GetMinMaxValues(HourlyDataPoints)
      range == IF scale.max - scale.min = 0 THEN FallbackRange
                                            ELSE scale.max - scale.min
  IN Frac((YBase - YSpan) * range + (value - scale.min) * YSpan, range)
GetHourlyYPosition(value) ==
  LET scale == GetMinMaxValues(HourlyDataPoints)
      range == IF scale.max - scale.min = 0 THEN FallbackRange
                                            ELSE scale.max - scale.min
  IN Frac(YBase * range - (value - scale.min) * YSpan, range)

\* getHourlyXPosition(index)
GetHourlyXPositionByCount(index) ==
  LET pointsCount == Len(HourlyDataPoints)
      parts == IF pointsCount = 0 THEN 1 ELSE pointsCount
  IN Frac(XLeft * parts + index * TotalWidth, parts)
GetHourlyXPosition(index) ==
  LET pointsCount == Len(HourlyDataPoints)
      parts == IF pointsCount - 1 = 0 THEN 1 ELSE pointsCount - 1
  IN Frac(XLeft * parts + index * TotalWidth, parts)

\* getHourlyGraphPoints()
GetHourlyGraphPoints ==
  LET points == HourlyDataPoints
  IN IF Len(points) < 2 THEN <<>>
     ELSE Join([i \in DOMAIN points |->
                  NumText(GetHourlyXPosition(i - 1)) \o SepText(",")
                    \o NumText(GetHourlyYPosition(points[i].value))], " ")

\* getHourlyGraphPolygonPoints()
GetHourlyGraphPolygonPointsFirstThenLast ==
  LET linePoints == GetHourlyGraphPoints
      points == HourlyDataPoints
  IN IF linePoints = <<>> \/ Len(points) < 2 THEN <<>>
     ELSE LET allPoints == Split(linePoints, " ")
              firstX == Split(allPoints[1], ",")[1]
              lastX == Split(allPoints[Len(allPoints)], ",")[1]
              bottomY == NumText(Whole(BottomY))
          IN linePoints \o SepText(" ") \o firstX \o SepText(",") \o bottomY
                        \o SepText(" ") \o lastX \o SepText(",") \o bottomY
GetHourlyGraphPolygonPoints ==
  LET linePoints == GetHourlyGraphPoints
      points == HourlyDataPoints
  IN IF linePoints = <<>> \/ Len(points) < 2 THEN <<>>
     ELSE LET allPoints == Split(linePoints, " ")
              firstX == Split(allPoints[1], ",")[1]
              lastX == Split(allPoints[Len(allPoints)], ",")[1]
              bottomY == NumText(Whole(BottomY))
          IN linePoints \o SepText(" ") \o lastX \o SepText(",") \o bottomY
                        \o SepText(" ") \o firstX \o SepText(",") \o bottomY

\* calculateCityTime(timezoneOffsetSeconds), for a device whose clock reads
\* deviceNow and whose getTimezoneOffset() is zoneOffset: the getTime() of the
\* Date returned.
CityTimeZoneSubtracted(deviceNow, zoneOffset, timezoneOffsetSeconds) ==
  LET utcTime == deviceNow - zoneOffset * MsPerMinute
  IN utcTime + timezoneOffsetSeconds * MsPerSec
CityTime(deviceNow, zoneOffset, timezoneOffsetSeconds) ==
  LET utcTime == deviceNow + zoneOffset * MsPerMinute
  IN utcTime + timezoneOffsetSeconds * MsPerSec

\* There is room for one more request: those issued plus the one the debounce
\* may still issue.
Room == (nextW - 1) + (IF debActive THEN 1 ELSE 0) < MaxReq

\* -------------------------------------------------------------------- Init
InitService ==
  /\ weather = NoWeather
  /\ forecast = NoForecast
  /\ loading = FALSE
  /\ debActive = FALSE
  /\ debLast = <<>>
  /\ debLeft = 0
  /\ cityPrev = {}
  /\ coordsPrev = {}
  /\ wreq = [i \in ReqIds |-> FreeW]
  /\ nextW = 1
  /\ freq = [i \in ReqIds |-> FreeF]
  /\ nextF = 1
  /\ destroyed = FALSE
  /\ lastCity = [name |-> <<>>, age |-> 0, burst |-> FALSE]
  /\ suppressed = NotDropped

\* TodayComponent's field initialisers.
InitComponent ==
  /\ now = 0
  /\ dailyForecast = <<>>
  /\ hourlyForecast = <<>>

\* Nothing drawn yet; no clock read yet.
NotDrawn == [drawn |-> FALSE, min |-> 0, max |-> 0, line |-> <<>>, polygon |-> <<>>]
NotRead == [read |-> FALSE, deviceNow |-> 0, zoneOffset |-> 0, timezone |-> 0, cityTime |-> 0]

\* HourlyForecastComponent's field initialisers.
DailyNotDrawn == [drawn |-> FALSE, min |-> 0, max |-> 0, pointsMax |-> <<>>, pointsMin |-> <<>>]

InitGraph ==
  /\ selectedDataType = "temp"
  /\ graph = NotDrawn
  /\ dailyGraph = DailyNotDrawn

\* weather$ has given null, or nothing.
NoSnapshot == [current |-> FALSE, timezone |-> 0]
NotEmitted == [emitted |-> FALSE, time |-> 0]

\* TodayComponent's field initialisers, for a device on UTC whose clock reads
\* 0 when the component is constructed.
InitTick ==
  /\ device = [now |-> 0, zoneOffset |-> 0]
  /\ snapshot = NoSnapshot
  /\ fieldWeather = NoSnapshot
  /\ timerSubscription = "undefined"
  /\ cityTimestamp = 0
  /\ cityTimestampStream = NotEmitted
  /\ componentDestroyed = FALSE

Init ==
  /\ InitService
  /\ list = <<>>
  /\ InitComponent
  /\ InitGraph
  /\ clock = NotRead
  /\ InitTick

\* ----------------------------------------------------------------- actions
\* The projection as it would be if an error of a request ended the channel
\* (catchError after switchMap instead of inside it): nothing is issued once
\* a request of the channel has failed.
IssueUnlessFailed(ch, city, lat, lon) ==
  IF \E j \in ReqIds : wreq[j].chan = ch /\ wreq[j].st = "fail"
    THEN UNCHANGED << loading, wreq, nextW >>
    ELSE /\ loading' = TRUE
         /\ wreq' = [Unsubscribe(wreq, ch) EXCEPT ![nextW] =
                       [chan |-> ch, st |-> "inflight", city |-> city, lat |-> lat, lon |-> lon]]
         /\ nextW' = nextW + 1

\* switchMap's projection on either channel: the previous inner observable is
\* unsubscribed (its finalize sets loading false), then loading is set true
\* and the new request is issued.
Issue(ch, city, lat, lon) ==
  /\ loading' = TRUE
  /\ wreq' = [Unsubscribe(wreq, ch) EXCEPT ![nextW] =
                [chan |-> ch, st |-> "inflight", city |-> city, lat |-> lat, lon |-> lon]]
  /\ nextW' = nextW + 1

\* searchByCity as it would be if a call made while the timer runs replaced
\* the waiting name without restarting the timer.
SearchByCityNoReset(name) ==
  /\ debActive \/ Room
  /\ ~(debActive /\ debLeft = 0)
  /\ IF destroyed
       THEN /\ suppressed' = Dropped("searchByCity", "closed", 0, 0)
            /\ UNCHANGED << debActive, debLast, debLeft, lastCity >>
       ELSE /\ suppressed' = NotDropped
            /\ debActive' = TRUE
            /\ lastCity' = [name |-> name, age |-> 0, burst |-> debActive]
            /\ debLast' = name
            /\ debLeft' = IF debActive THEN debLeft ELSE DebounceMs
  /\ UNCHANGED << componentVars, graphVars, clockVars, weather, forecast, loading, cityPrev, coordsPrev, wreq, nextW,
                  freq, nextF, destroyed >>

\* searchByCity as it would be if the call itself, not the debounced emission,
\* made switchMap leave the request in flight.
SearchByCitySupersedes(name) ==
  /\ debActive \/ Room
  /\ ~(debActive /\ debLeft = 0)
  /\ IF destroyed
       THEN /\ suppressed' = Dropped("searchByCity", "closed", 0, 0)
            /\ UNCHANGED << debActive, debLast, debLeft, lastCity, wreq >>
       ELSE /\ suppressed' = NotDropped
            /\ debActive' = TRUE
            /\ lastCity' = [name |-> name, age |-> 0,
                             burst |-> debActive]
            /\ debLast' = name
            /\ debLeft' = DebounceMs
            /\ wreq' = Unsubscribe(wreq, "city")
  /\ UNCHANGED << componentVars, graphVars, clockVars, weather, forecast, loading, cityPrev, coordsPrev, nextW,
                  freq, nextF, destroyed >>

\* searchByCity(cityName): citySearchSubject.next, which restarts the debounce.
SearchByCity(name) ==
  /\ debActive \/ Room
  /\ ~(debActive /\ debLeft = 0)
  /\ IF destroyed
       THEN /\ suppressed' = Dropped("searchByCity", "closed", 0, 0)
            /\ UNCHANGED << debActive, debLast, debLeft, lastCity >>
       ELSE /\ suppressed' = NotDropped
            /\ debActive' = TRUE
            /\ lastCity' = [name |-> name, age |-> 0,
                             burst |-> debActive]
            /\ debLast' = name
            /\ debLeft' = DebounceMs
  /\ UNCHANGED << componentVars, graphVars, clockVars, weather, forecast, loading, cityPrev, coordsPrev, wreq, nextW,
                  freq, nextF, destroyed >>

\* TodayComponent.searchCity(): the search form forwards the typed name
\* unless it is blank.
SearchCity(name) ==
  IF ~NonBlank(name)
    THEN /\ suppressed' = Dropped("searchCity", "blank", 0, 0)
         /\ UNCHANGED << componentVars, graphVars, clockVars, weather, forecast, loading, debActive, debLast, debLeft,
                         cityPrev, coordsPrev, wreq, nextW, freq, nextF, destroyed,
                         lastCity >>
    ELSE SearchByCity(name)

\* Time passes while the debounce timer runs.
Advance ==
  /\ debActive
  /\ debLeft > 0
  /\ debLeft' = debLeft - Min(TickMs, debLeft)
  /\ lastCity' = [lastCity EXCEPT !.age = Min(DebounceMs, @ + Min(TickMs, debLeft))]
  /\ suppressed' = NotDropped
  /\ UNCHANGED << componentVars, graphVars, clockVars, weather, forecast, loading, debActive, debLast, cityPrev,
                  coordsPrev, wreq, nextW, freq, nextF, destroyed >>

\* The debounce timer is due: lastValue goes through distinctUntilChanged,
\* filter and switchMap.
DebounceEmit ==
  /\ debActive
  /\ debLeft = 0
  /\ debActive' = FALSE
  /\ UNCHANGED << debLast, debLeft >>
  /\ IF CityChanged(cityPrev, debLast)
       THEN /\ cityPrev' = {debLast}
            /\ IF NonBlank(debLast)
                 THEN /\ Issue("city", debLast, 0, 0)
                      /\ suppressed' = NotDropped
                 ELSE /\ UNCHANGED << loading, wreq, nextW >>
                      /\ suppressed' = Dropped("cityEmit", "blank", 0, 0)
       ELSE /\ UNCHANGED << cityPrev, loading, wreq, nextW >>
            /\ suppressed' = Dropped("cityEmit", "same", 0, 0)
  /\ UNCHANGED << componentVars, graphVars, clockVars, weather, forecast, coordsPrev, freq, nextF, destroyed, lastCity >>

\* searchByCoords(lat, lon): coordsSearchSubject.next, no debounce.
SearchByCoords(lat, lon) ==
  /\ Room
  /\ IF destroyed
       THEN /\ UNCHANGED << coordsPrev, loading, wreq, nextW >>
            /\ suppressed' = Dropped("searchByCoords", "closed", 0, 0)
       ELSE IF CoordsChanged(coordsPrev, [lat |-> lat, lon |-> lon])
         THEN /\ coordsPrev' = {[lat |-> lat, lon |-> lon]}
              /\ Issue("coords", <<>>, lat, lon)
              /\ suppressed' = NotDropped
         ELSE /\ UNCHANGED << coordsPrev, loading, wreq, nextW >>
              /\ suppressed' = Dropped("searchByCoords", "same", lat, lon)
  /\ UNCHANGED << componentVars, graphVars, clockVars, weather, forecast, debActive, debLast, debLeft, cityPrev,
                  freq, nextF, destroyed, lastCity >>

\* getLocation as it would be if its error callback searched anyway.
GetLocationFallback(res, lat, lon) ==
  IF res = "position"
    THEN SearchByCoords(lat, lon)
    ELSE /\ Room
         /\ ~destroyed
         /\ suppressed' = Dropped("getLocation", res, 0, 0)
         /\ coordsPrev' = {[lat |-> lat, lon |-> lon]}
         /\ Issue("coords", <<>>, lat, lon)
         /\ UNCHANGED << componentVars, graphVars, clockVars, weather, forecast, debActive, debLast, debLeft, cityPrev,
                         freq, nextF, destroyed, lastCity >>

\* TodayComponent.getLocation(): only the success callback of
\* getCurrentPosition calls searchByCoords, with the position it is given.
GetLocation(res, lat, lon) ==
  IF res = "position"
    THEN SearchByCoords(lat, lon)
    ELSE /\ suppressed' = Dropped("getLocation", res, 0, 0)
         /\ UNCHANGED << componentVars, graphVars, clockVars, weather, forecast, loading, debActive, debLast, debLeft,
                         cityPrev, coordsPrev, wreq, nextW, freq, nextF, destroyed,
                         lastCity >>

\* fetchForecast as it would be if it were given the coordinates searched for.
FetchForecastSearched(id, c) ==
  /\ freq' = [freq EXCEPT ![nextF] =
               [st |-> "inflight", coord |-> [lat |-> wreq[id].lat, lon |-> wreq[id].lon],
                forW |-> id]]
  /\ nextF' = nextF + 1

\* fetchForecast(lat, lon): one forecast request, subscribed without takeUntil.
FetchForecast(id, c) ==
  /\ freq' = [freq EXCEPT ![nextF] = [st |-> "inflight", coord |-> c, forW |-> id]]
  /\ nextF' = nextF + 1

\* The HTTP response of weather request id arrives.
WeatherResponse(id, outcome, c) ==
  /\ wreq[id].st \in {"inflight", "stale"}
  /\ IF wreq[id].st = "stale"
       THEN \* nobody is subscribed any more
            /\ wreq' = [wreq EXCEPT ![id] = Closed(@, "discarded")]
            /\ suppressed' = NotDropped
            /\ UNCHANGED << weather, loading, freq, nextF >>
       ELSE /\ wreq' = [wreq EXCEPT ![id] = Closed(@, outcome)]
            /\ suppressed' = NotDropped
            /\ loading' = LoadingAfterSettle(loading, outcome)
            /\ IF Delivered(outcome)
                 THEN \* subscribe callback: weatherSubject.next, fetchForecast
                      /\ weather' = [req |-> id, coord |-> c]
                      /\ FetchForecast(id, c)
                 ELSE \* catchError gives of(null), filter drops it
                      /\ UNCHANGED << weather, freq, nextF >>
  /\ UNCHANGED << componentVars, graphVars, clockVars, forecast, debActive, debLast, debLeft, cityPrev, coordsPrev,
                  nextW, destroyed, lastCity >>

\* The HTTP response of forecast request k arrives.
ForecastResponse(k, outcome) ==
  /\ freq[k].st = "inflight"
  /\ freq' = [freq EXCEPT ![k].st = outcome]
  /\ suppressed' = NotDropped
  /\ forecast' = StoredForecast(forecast, k, outcome)
  /\ UNCHANGED << componentVars, graphVars, clockVars, weather, loading, debActive, debLast, debLeft, cityPrev,
                  coordsPrev, wreq, nextW, nextF, destroyed, lastCity >>

\* ngOnDestroy: destroy$ emits, takeUntil unsubscribes both channels.
Destroy ==
  /\ ~destroyed
  /\ destroyed' = TRUE
  /\ debActive' = FALSE
  /\ wreq' = Unsubscribe(Unsubscribe(wreq, "city"), "coords")
  /\ loading' = IF Inner(wreq, "city") \cup Inner(wreq, "coords") # {} THEN FALSE ELSE loading
  /\ suppressed' = NotDropped
  /\ UNCHANGED << componentVars, graphVars, clockVars, weather, forecast, debLast, debLeft, cityPrev, coordsPrev,
                  nextW, freq, nextF, lastCity >>

Next ==
  \/ \E name \in Names : SearchByCity(name)
  \/ \E name \in Names : SearchCity(name)
  \/ Advance
  \/ DebounceEmit
  \/ \E lat \in Lats, lon \in Lons : SearchByCoords(lat, lon)
  \/ \E id \in ReqIds, outcome \in WeatherOutcomes, c \in Places : WeatherResponse(id, outcome, c)
  \/ \E k \in ReqIds, outcome \in ForecastOutcomes : ForecastResponse(k, outcome)
  \/ Destroy

Spec == Init /\ [][Next]_vars

\* The page used through its "current location" button only.
NextGeo ==
  \/ \E res \in GeoOutcomes, lat \in Lats, lon \in Lons : GetLocation(res, lat, lon)
  \/ \E id \in ReqIds, outcome \in WeatherOutcomes, c \in Places : WeatherResponse(id, outcome, c)
  \/ \E k \in ReqIds, outcome \in ForecastOutcomes : ForecastResponse(k, outcome)
  \/ Destroy

SpecGeo == Init /\ [][NextGeo]_vars

\* The forecast response grows by one sample, step seconds after its last
\* one; the first sample is at FirstDt. The series is complete once
\* processForecast has read it.
Receive(step, temp, bound) ==
  /\ now = 0
  /\ Len(list) < bound
  /\ list' = IF list = <<>>
               THEN << Sample(FirstDt, temp) >>
               ELSE Append(list, Sample(list[Len(list)].dt + step, temp))
  /\ UNCHANGED << graphVars, clockVars >>
  /\ UNCHANGED << now, dailyForecast, hourlyForecast, weather, forecast, loading,
                  debActive, debLast, debLeft, cityPrev, coordsPrev, wreq, nextW,
                  freq, nextF, destroyed, lastCity, suppressed >>

\* A series of the short family (at most MaxLen samples, any of Temps).
NextSample(step, temp) == Receive(step, temp, MaxLen)

\* A series of the long family (at most MaxLong samples, one temperature).
LongSample(step, temp) == Receive(step, temp, MaxLong)

\* The items of the list after processForecast: the loop and the .map callback
\* read them and assign to none; the bucket is a spread copy
\* ({...baseItem, main: {...baseItem.main, temp_max, temp_min}}).
ListAfterInPlace(l) ==
  LET m == DailyMap(l, Len(l))
      kept == Slice(m, 0, DailyLimit)
  IN [i \in DOMAIN l |->
        IF \E e \in DOMAIN kept :
             /\ kept[e].key = DateString(l[i])
             /\ \A j \in 1 .. i - 1 : DateString(l[j]) # DateString(l[i])
          THEN Bucket(kept[CHOOSE e \in DOMAIN kept : kept[e].key = DateString(l[i])])
          ELSE l[i]]
ListAfter(l) == l

\* processForecast(list), run when the clock reads nowMs.
ProcessForecast(nowMs) ==
  /\ now' = nowMs
  /\ dailyForecast' = Daily(list)
  /\ hourlyForecast' = Hourly(list, Len(list), nowMs)
  /\ list' = ListAfter(list)
  /\ UNCHANGED << graphVars, clockVars >>
  /\ UNCHANGED << weather, forecast, loading, debActive, debLast, debLeft,
                  cityPrev, coordsPrev, wreq, nextW, freq, nextF, destroyed,
                  lastCity, suppressed >>

\* The component handed one sample series, which it processes at any time.
NextAgg ==
  \/ \E step \in Steps, temp \in Temps : NextSample(step, temp)
  \/ \E nowMs \in Nows : ProcessForecast(nowMs)

SpecAgg == Init /\ [][NextAgg]_vars

\* The component handed one series of the long family.
NextLong ==
  \/ \E step \in Steps, temp \in SteadyTemps : LongSample(step, temp)
  \/ \E nowMs \in Nows : ProcessForecast(nowMs)

SpecLong == Init /\ [][NextLong]_vars

\* The page sets the graph's data type (an @Input of the component).
SelectDataType(type) ==
  /\ ~graph.drawn
  /\ selectedDataType' = type
  /\ UNCHANGED << graph, dailyGraph, list, now, dailyForecast, hourlyForecast, clockVars,
                  weather, forecast, loading, debActive, debLast, debLeft,
                  cityPrev, coordsPrev, wreq, nextW, freq, nextF, destroyed,
                  lastCity, suppressed >>

\* The page gives the graph an hourly series one item longer.
HourlyInput(item) ==
  /\ ~graph.drawn
  /\ Len(hourlyForecast) < MaxPoints
  /\ hourlyForecast' = Append(hourlyForecast, item)
  /\ UNCHANGED << graphVars, list, now, dailyForecast, clockVars,
                  weather, forecast, loading, debActive, debLast, debLeft,
                  cityPrev, coordsPrev, wreq, nextW, freq, nextF, destroyed,
                  lastCity, suppressed >>

\* The template is rendered: it reads the scale and the two points strings.
DrawGraph ==
  /\ ~graph.drawn
  /\ graph' = [drawn |-> TRUE,
               min |-> GetMinMaxValues(HourlyDataPoints).min,
               max |-> GetMinMaxValues(HourlyDataPoints).max,
               line |-> GetHourlyGraphPoints,
               polygon |-> GetHourlyGraphPolygonPoints]
  /\ UNCHANGED << selectedDataType, dailyGraph, componentVars, clockVars,
                  weather, forecast, loading, debActive, debLast, debLeft,
                  cityPrev, coordsPrev, wreq, nextW, freq, nextF, destroyed,
                  lastCity, suppressed >>

NextGraph ==
  \/ \E type \in DataTypes : SelectDataType(type)
  \/ \E item \in Readings : HourlyInput(item)
  \/ DrawGraph

SpecGraph == Init /\ [][NextGraph]_vars

\* a || b on numbers: b when a is 0 (or NaN or missing), else a.
OrElse(a, b) == IF a # 0 THEN a ELSE b

\* getMaxTemp(), getMinTemp()
GetMaxTemp ==
  IF Len(dailyForecast) = 0 THEN DailyEmptyMax
  ELSE MathMax([i \in DOMAIN dailyForecast |->
                  OrElse(dailyForecast[i].main.temp_max, dailyForecast[i].main.temp)])
GetMinTemp ==
  IF Len(dailyForecast) = 0 THEN DailyEmptyMin
  ELSE MathMin([i \in DOMAIN dailyForecast |->
                  OrElse(dailyForecast[i].main.temp_min, dailyForecast[i].main.temp)])

\* getYPosition(temp) on an axis from minTemp to maxTemp
YOnAxis(temp, minTemp, maxTemp) ==
  LET range == OrElse(maxTemp - minTemp, DailyFallbackRange)
  IN Frac(DailyYBase * range - (temp - minTemp) * DailyYSpan, range)

\* getYPosition(temp)
GetYPosition(temp) == YOnAxis(temp, GetMinTemp, GetMaxTemp)

\* getGraphPointsMax(), getGraphPointsMin()
GetGraphPointsMax ==
  IF Len(dailyForecast) = 0 THEN <<>>
  ELSE Join([i \in DOMAIN dailyForecast |->
               NumText(Whole(DailyXLeft + (i - 1) * DailyXStep)) \o SepText(",")
                 \o NumText(GetYPosition(OrElse(dailyForecast[i].main.temp_max,
                                                dailyForecast[i].main.temp)))], " ")
GetGraphPointsMin ==
  IF Len(dailyForecast) = 0 THEN <<>>
  ELSE Join([i \in DOMAIN dailyForecast |->
               NumText(Whole(DailyXLeft + (i - 1) * DailyXStep)) \o SepText(",")
                 \o NumText(GetYPosition(OrElse(dailyForecast[i].main.temp_min,
                                                dailyForecast[i].main.temp)))], " ")

\* A series of the family the daily chart is drawn from.
ChartSample(step, temp) == Receive(step, temp, MaxChart)

\* The daily chart's template is rendered with the buckets of processForecast.
DrawDaily ==
  /\ now # 0
  /\ ~dailyGraph.drawn
  /\ dailyGraph' = [drawn |-> TRUE,
                    min |-> GetMinTemp,
                    max |-> GetMaxTemp,
                    pointsMax |-> GetGraphPointsMax,
                    pointsMin |-> GetGraphPointsMin]
  /\ UNCHANGED << selectedDataType, graph, componentVars, clockVars,
                  weather, forecast, loading, debActive, debLast, debLeft,
                  cityPrev, coordsPrev, wreq, nextW, freq, nextF, destroyed,
                  lastCity, suppressed >>

\* The page handed one series, which it processes and draws as a daily chart.
NextDaily ==
  \/ \E step \in Steps, temp \in ChartTemps : ChartSample(step, temp)
  \/ \E nowMs \in Nows : ProcessForecast(nowMs)
  \/ DrawDaily

SpecDaily == Init /\ [][NextDaily]_vars

\* calculateCityTime(timezoneOffsetSeconds) is called.
CalculateCityTime(deviceNow, zoneOffset, timezoneOffsetSeconds) ==
  /\ clock' = [read |-> TRUE, deviceNow |-> deviceNow, zoneOffset |-> zoneOffset,
               timezone |-> timezoneOffsetSeconds,
               cityTime |-> CityTime(deviceNow, zoneOffset, timezoneOffsetSeconds)]
  /\ UNCHANGED << componentVars, graphVars, tickVars,
                  weather, forecast, loading, debActive, debLast, debLeft,
                  cityPrev, coordsPrev, wreq, nextW, freq, nextF, destroyed,
                  lastCity, suppressed >>

NextClock ==
  \E deviceNow \in DeviceNows, zoneOffset \in ZoneOffsets, timezone \in Timezones :
    CalculateCityTime(deviceNow, zoneOffset, timezone)

SpecClock == Init /\ [][NextClock]_vars

\* timezone: data.timezone || 0, the mapping of the service's two weather
\* requests.
TimezoneOf(data) == IF Len(data) = 0 \/ data[1] = 0 THEN 0 ELSE data[1]

\* The map of cityTimestamp$, given the latest value of weather$:
\* if (weather && weather.timezone) calculateCityTime(weather.timezone),
\* else new Date().
StreamTime(w) ==
  IF w.current /\ w.timezone # 0
    THEN CityTime(device.now, device.zoneOffset, w.timezone)
    ELSE device.now

\* The callback of the timer of ngOnInit:
\* if (this.weather) calculateCityTime(this.weather.timezone), else new Date().
TimerTime ==
  IF fieldWeather.current
    THEN CityTime(device.now, device.zoneOffset, fieldWeather.timezone)
    ELSE device.now

\* Everything the page's clocks leave alone.
RestOfPage ==
  << componentVars, graphVars, clock, weather, forecast, loading, debActive, debLast,
     debLeft, cityPrev, coordsPrev, wreq, nextW, freq, nextF, destroyed, lastCity,
     suppressed >>

\* The device's clock moves on.
TimePasses(deviceNow, zoneOffset) ==
  /\ deviceNow > device.now
  /\ device' = [now |-> deviceNow, zoneOffset |-> zoneOffset]
  /\ UNCHANGED << snapshot, fieldWeather, timerSubscription, cityTimestamp,
                  cityTimestampStream, componentDestroyed >>
  /\ UNCHANGED RestOfPage

\* ngOnInit: the timer is subscribed; startWith(0) runs its callback at once.
NgOnInit ==
  /\ timerSubscription = "undefined"
  /\ ~componentDestroyed
  /\ timerSubscription' = "open"
  /\ cityTimestamp' = TimerTime
  /\ UNCHANGED << device, snapshot, fieldWeather, cityTimestampStream, componentDestroyed >>
  /\ UNCHANGED RestOfPage

\* interval(1000) of ngOnInit fires: it does while its subscription is open.
TimerTick ==
  /\ timerSubscription = "open"
  /\ cityTimestamp' = TimerTime
  /\ UNCHANGED << device, snapshot, fieldWeather, timerSubscription,
                  cityTimestampStream, componentDestroyed >>
  /\ UNCHANGED RestOfPage

\* interval(1000) of cityTimestamp$ fires, while the page's view is there to
\* subscribe to it.
StreamTick ==
  /\ ~componentDestroyed
  /\ cityTimestampStream' = [emitted |-> TRUE, time |-> StreamTime(snapshot)]
  /\ UNCHANGED << device, snapshot, fieldWeather, timerSubscription, cityTimestamp,
                  componentDestroyed >>
  /\ UNCHANGED RestOfPage

\* weather$ gives the page a snapshot, whose timezone the service has mapped;
\* combineLatest runs the map of cityTimestamp$ with it.
WeatherEmission(data) ==
  /\ ~componentDestroyed
  /\ snapshot' = [current |-> TRUE, timezone |-> TimezoneOf(data)]
  /\ cityTimestampStream' = [emitted |-> TRUE, time |-> StreamTime(snapshot')]
  /\ UNCHANGED << device, fieldWeather, timerSubscription, cityTimestamp,
                  componentDestroyed >>
  /\ UNCHANGED RestOfPage

\* ngOnDestroy as it would be without timerSubscription.unsubscribe().
NgOnDestroyTimerLeft ==
  /\ ~componentDestroyed
  /\ componentDestroyed' = TRUE
  /\ UNCHANGED << device, snapshot, fieldWeather, timerSubscription, cityTimestamp,
                  cityTimestampStream >>
  /\ UNCHANGED RestOfPage

\* ngOnDestroy: if (this.timerSubscription) this.timerSubscription.unsubscribe();
\* destroy$ emits and completes.
NgOnDestroy ==
  /\ ~componentDestroyed
  /\ componentDestroyed' = TRUE
  /\ timerSubscription' = IF timerSubscription = "open" THEN "closed"
                                                        ELSE timerSubscription
  /\ UNCHANGED << device, snapshot, fieldWeather, cityTimestamp, cityTimestampStream >>
  /\ UNCHANGED RestOfPage

\* The page's clocks over its lifetime.
NextTick ==
  \/ \E deviceNow \in LaterNows, zoneOffset \in DeviceZones : TimePasses(deviceNow, zoneOffset)
  \/ NgOnInit
  \/ TimerTick
  \/ StreamTick
  \/ \E data \in ApiTimezones : WeatherEmission(data)
  \/ NgOnDestroy

SpecTick == Init /\ [][NextTick]_vars

\* ------------------------------------------------------- derived notions
\* The UTC calendar day of a sample or bucket: whole days since 1970-01-01.
DayOf(item) == item.dt \div SecPerDay
\* processForecast has run on the series.
Processed == now # 0
\* The series is in chronological order, as the forecast API sends it.
Chronological(l) == \A i, j \in DOMAIN l : i < j => l[i].dt <= l[j].dt
\* Position in the series of the first sample of day d.
FirstOfDay(l, d) == CHOOSE i \in DOMAIN l : DayOf(l[i]) = d /\ \A j \in 1 .. i - 1 : DayOf(l[j]) # d
\* The days of the series.
DaysOf(l) == { DayOf(l[i]) : i \in DOMAIN l }
\* Positions in the series of the samples whose timestamp is after the clock
\* reading t (ms).
After(l, t) == { i \in DOMAIN l : l[i].dt * MsPerSec > t }
\* Position in the series of the i-th sample after the clock reading t.
NthAfter(l, t, i) ==
  CHOOSE p \in After(l, t) : Cardinality({ q \in After(l, t) : q < p }) = i - 1
\* The values the graph plots, and their least and greatest.
PlotValues == { HourlyDataPoints[i].value : i \in DOMAIN HourlyDataPoints }
Least(S) == CHOOSE m \in S : \A x \in S : m <= x
\* The series drawn is within the physical range of its data type: humidity
\* from 0 to 100 %, wind speed from 0.
InPhysicalRange ==
  /\ selectedDataType = "humidity" =>
        \A v \in PlotValues : HumidityFloor <= v /\ v <= HumidityCeil
  /\ selectedDataType = "wind" => \A v \in PlotValues : WindFloor <= v
\* The vertices a points attribute lists: its pieces between spaces, each of
\* which is a number, a comma and a number.
WellFormed(str) ==
  str # <<>> =>
    \A i \in DOMAIN Split(str, " ") :
      LET piece == Split(str, " ")[i]
      IN Len(piece) = 3 /\ piece[1].sep = "" /\ piece[2].sep = "," /\ piece[3].sep = ""
Vertices(str) ==
  IF str = <<>> THEN <<>>
  ELSE LET pieces == Split(str, " ")
       IN [i \in DOMAIN pieces |-> [x |-> pieces[i][1].num, y |-> pieces[i][3].num]]
\* The sequence h keeps the order of the series l: any two of its members
\* stand at two positions of l in the same order.
InOrderOf(h, l) ==
  \A i, j \in DOMAIN h :
    i < j => \E p, q \in DOMAIN l : p < q /\ l[p] = h[i] /\ l[q] = h[j]
Max(S) == CHOOSE m \in S : \A x \in S : x <= m

\* Request i is on the wire: its response has not arrived.
Pending(i) == wreq[i].st \in {"inflight", "stale"}
\* The response of request i arrives in this step.
Arrives(i) == Pending(i) /\ wreq'[i].st \notin {"inflight", "stale"}
\* A later search of the same channel has been accepted.
Superseded(i) == \E j \in ReqIds : j > i /\ wreq[j].chan = wreq[i].chan
\* A weather request is issued in this step, on channel ch.
Issued(ch) == nextW' = nextW + 1 /\ wreq'[nextW].chan = ch
\* The debounce timer fires in this step.
Emits == debActive /\ ~debActive' /\ destroyed' = destroyed
\* Every character of s is white space.
AllWs(s) == \A k \in 1 .. Len(s) : IsWs(s[k])
\* The latest request of channel ch has failed.
LatestFailed(ch) ==
  \E i \in ReqIds : /\ wreq[i].chan = ch
                    /\ wreq[i].st = "fail"
                    /\ \A j \in ReqIds : j > i => wreq[j].chan # ch
\* searchByCity is called in this step, before teardown.
CallsSearchByCity ==
  /\ debActive'
  /\ debLeft' = DebounceMs
  /\ lastCity'.age = 0
  /\ (~debActive \/ lastCity' # lastCity \/ debLeft' # debLeft)
\* The requests whose response was accepted.
OkW == { i \in ReqIds : wreq[i].st = "ok" }
OkF == { k \in ReqIds : freq[k].st = "ok" }

\* ------------------------------------------------------------------ claims

\* C1: latest wins per channel. The response of a weather request that a later
\* accepted search of the same channel has superseded is never written to
\* weather and starts no forecast fetch, whenever it arrives; and when every
\* accepted response came from one channel, weather is the response of the
\* latest of them.
C1_LatestWinsPerChannel ==
  /\ [][ \A i \in ReqIds : (Arrives(i) /\ Superseded(i)) =>
            (weather' = weather /\ freq' = freq /\ nextF' = nextF) ]_vars
  /\ [] ( (OkW # {} /\ \A i, j \in OkW : wreq[i].chan = wreq[j].chan)
            => weather.req = Max(OkW) )

\* Request a was superseded by b on its channel, both responses have arrived,
\* a's was discarded and weather is b's.
C1_Witness ==
  \E a, b \in ReqIds :
    /\ a < b
    /\ wreq[a].chan = wreq[b].chan
    /\ wreq[a].st = "discarded"
    /\ wreq[b].st = "ok"
    /\ weather.req = b

\* C2: stale forecasts never clobber fresher state. Whatever the completion
\* order, the stored forecast is the one of the latest forecast fetch that
\* succeeded.
C2_StaleForecastNeverClobbers ==
  OkF # {} => forecast.req = Max(OkF)

\* C3: whenever a snapshot and a forecast are both present, the forecast is
\* the one fetched for the coordinates of the snapshot.
C3_SnapshotForecastConsistent ==
  (weather # NoWeather /\ forecast # NoForecast) => forecast.coord = weather.coord

\* C4: across both channels, the response of an earlier accepted search never
\* replaces the snapshot of a later accepted search.
C4_NoCrossChannelOverwrite ==
  [][ (weather' # weather /\ weather # NoWeather) => weather'.req > weather.req ]_vars

\* C5: debounce. A city fetch is issued only when 500 ms have passed since the
\* last searchByCity call, for the name of that call, one at a time; and when
\* the timer of a non-blank name that differs from the previously emitted one
\* fires, the fetch is issued and the timer is spent.
C5_Debounce ==
  [][ /\ Issued("city") =>
           /\ lastCity.age = DebounceMs
           /\ wreq'[nextW].city = lastCity.name
           /\ Emits
      /\ (Emits /\ ~AllWs(lastCity.name) /\ lastCity.name \notin cityPrev) =>
           /\ Issued("city")
           /\ ~debActive'
           /\ \A i \in ReqIds \ {nextW} : wreq'[i].st # "inflight" \/ wreq'[i].chan # "city" ]_vars

\* A burst of at least two calls has ended in one fetch, for its last name.
C5_Witness ==
  /\ lastCity.burst
  /\ lastCity.age = DebounceMs
  /\ ~debActive
  /\ \E i \in ReqIds : /\ i = nextW - 1
                       /\ wreq[i].chan = "city"
                       /\ wreq[i].st = "inflight"
                       /\ wreq[i].city = lastCity.name

\* C6: city-name dedup. When the debounce emits the string it emitted last,
\* no fetch is issued and loading, weather and forecast do not change.
C6_CityDedup ==
  [][ (Emits /\ debLast \in cityPrev) =>
        UNCHANGED << wreq, nextW, loading, weather, forecast, freq, nextF >> ]_vars

\* The debounce has just dropped a non-blank name equal to the previous one.
C6_Witness ==
  /\ suppressed = Dropped("cityEmit", "same", 0, 0)
  /\ ~AllWs(debLast)
  /\ debLast \in cityPrev
  /\ \E i \in ReqIds : wreq[i].chan = "city"

\* C7: a blank search text is ignored. Neither the call (through the search
\* form or straight to searchByCity) nor the later debounce emission of a
\* blank text issues a request or changes weather, forecast or loading.
C7_BlankIgnored ==
  [][ ( \/ suppressed'.op = "searchCity"
        \/ (debActive' /\ debLeft' = DebounceMs /\ AllWs(debLast')
              /\ (~debActive \/ debLast' # debLast \/ debLeft' # debLeft))
        \/ (Emits /\ AllWs(debLast)) )
      => UNCHANGED << weather, forecast, loading, wreq, nextW, freq, nextF >> ]_vars

\* A blank text has gone through the debounce while a request was in flight.
C7_Witness ==
  /\ suppressed = Dropped("cityEmit", "blank", 0, 0)
  /\ AllWs(debLast)
  /\ \E i \in ReqIds : wreq[i].st = "inflight"

\* C8: coordinate dedup. Before teardown, a searchByCoords call with the pair
\* of the preceding call issues nothing and changes nothing; a call with
\* another lat or another lon issues its fetch in the same step.
C8_CoordsDedup ==
  [][ /\ (suppressed'.op = "searchByCoords" /\ suppressed'.why = "same") =>
           /\ [lat |-> suppressed'.lat, lon |-> suppressed'.lon] \in coordsPrev
           /\ UNCHANGED << weather, forecast, loading, wreq, nextW, freq, nextF, coordsPrev >>
      /\ Issued("coords") =>
           /\ [lat |-> wreq'[nextW].lat, lon |-> wreq'[nextW].lon] \notin coordsPrev
           /\ wreq'[nextW].st = "inflight"
           /\ coordsPrev' = {[lat |-> wreq'[nextW].lat, lon |-> wreq'[nextW].lon]} ]_vars

\* A call repeating the pair of the request in flight has been dropped.
C8_Witness ==
  /\ suppressed.op = "searchByCoords"
  /\ suppressed.why = "same"
  /\ \E i \in ReqIds : /\ wreq[i].chan = "coords"
                       /\ wreq[i].lat = suppressed.lat
                       /\ wreq[i].lon = suppressed.lon

\* C9: loading transitions. Accepting a search sets loading; the settling of
\* the subscribed weather request, by success or failure, clears it, in the
\* very step that starts the forecast fetch on success.
C9_LoadingTransitions ==
  [][ /\ (nextW' = nextW + 1) => loading'
      /\ \A i \in ReqIds :
           (wreq[i].st = "inflight" /\ wreq'[i].st \in {"ok", "fail"}) =>
              /\ ~loading'
              /\ (wreq'[i].st = "ok" => (nextF' = nextF + 1 /\ freq'[nextF].st = "inflight")) ]_vars

\* loading is false while the forecast fetch of an accepted response is
\* still outstanding.
C9_Witness ==
  /\ ~loading
  /\ \E k \in ReqIds : freq[k].st = "inflight" /\ weather.req = freq[k].forW
  /\ \A i \in ReqIds : ~Pending(i)

\* C10: loading reflects outstanding work. While the latest accepted weather
\* request of a channel has not settled, loading is true.
C10_LoadingReflectsOutstanding ==
  (\E i \in ReqIds : wreq[i].st = "inflight") => loading

\* C11: loading is never left stuck. In every state in which no weather
\* request is outstanding (each one issued has settled, was superseded or was
\* cancelled by teardown) loading is false.
C11_LoadingNeverStuck ==
  (\A i \in ReqIds : wreq[i].st # "inflight") => ~loading

\* A weather fetch has failed, nothing is outstanding and loading is false.
C11_Witness ==
  /\ \E i \in ReqIds : wreq[i].st = "fail"
  /\ \A i \in ReqIds : wreq[i].st # "inflight"
  /\ ~loading

\* C12: when the response of the subscribed weather request succeeds, weather
\* becomes that snapshot and, in the same step, exactly one forecast fetch is
\* started, for the coord of the snapshot.
C12_AcceptedResponse ==
  [][ \A i \in ReqIds :
        (wreq[i].st = "inflight" /\ wreq'[i].st = "ok") =>
           /\ weather'.req = i
           /\ nextF' = nextF + 1
           /\ freq'[nextF] = [st |-> "inflight", coord |-> weather'.coord, forW |-> i]
           /\ \A k \in ReqIds \ {nextF} : freq'[k] = freq[k] ]_vars

\* The latest coordinate search was answered with a coord other than the one
\* searched, and the forecast fetch it started is for the answered coord.
C12_Witness ==
  \E i \in ReqIds, k \in ReqIds :
    /\ wreq[i].chan = "coords"
    /\ wreq[i].st = "ok"
    /\ \A j \in ReqIds : j > i => wreq[j].chan # "coords"
    /\ weather.req = i
    /\ weather.coord \notin coordsPrev
    /\ freq[k].forW = i
    /\ freq[k].st = "inflight"
    /\ freq[k].coord = weather.coord

\* C13: when the weather fetch of the latest accepted search fails, weather
\* is cleared to none.
C13_FailureClearsWeather ==
  [][ \A i \in ReqIds :
        (i = nextW - 1 /\ wreq[i].st = "inflight" /\ wreq'[i].st = "fail") =>
           weather' = NoWeather ]_vars

\* C14: a weather fetch that fails starts no forecast fetch and leaves the
\* forecast as it was.
C14_FailureStartsNoForecast ==
  [][ \A i \in ReqIds :
        (wreq[i].st = "inflight" /\ wreq'[i].st = "fail") =>
           UNCHANGED << freq, nextF, forecast >> ]_vars

\* The latest weather fetch has failed while a forecast is stored, and no
\* forecast request exists for it.
C14_Witness ==
  \E i \in ReqIds :
    /\ i = nextW - 1
    /\ wreq[i].st = "fail"
    /\ forecast # NoForecast
    /\ \A k \in ReqIds : freq[k].forW # i

\* C15: a forecast fetch that fails leaves weather, forecast and loading as
\* they were.
C15_ForecastFailureKeepsState ==
  [][ \A k \in ReqIds :
        (freq[k].st = "inflight" /\ freq'[k].st = "fail") =>
           UNCHANGED << weather, forecast, loading >> ]_vars

\* A forecast fetch has failed and the snapshot and an earlier forecast are
\* still there.
C15_Witness ==
  \E k \in ReqIds :
    /\ freq[k].st = "fail"
    /\ forecast # NoForecast
    /\ forecast.req < k
    /\ weather # NoWeather

\* C16: a forecast response with an empty list is a valid result: it replaces
\* the forecast stored before.
C16_EmptyForecastReplaces ==
  [][ \A k \in ReqIds :
        (freq[k].st = "inflight" /\ freq'[k].st = "empty" /\ forecast # NoForecast) =>
           forecast'.req # forecast.req ]_vars

\* C17: after teardown no response changes weather or forecast and no call
\* starts a fetch.
C17_NothingAfterTeardown ==
  [][ destroyed => UNCHANGED << weather, forecast, nextW, nextF >> ]_vars

\* C18: a geolocation failure calls nothing and changes nothing; a coordinate
\* request is issued only for a reported position, with its lat and lon.
C18_GeolocationFailure ==
  [][ /\ suppressed'.op = "getLocation" =>
           UNCHANGED << weather, forecast, loading, wreq, nextW, freq, nextF, coordsPrev >>
      /\ Issued("coords") =>
           /\ suppressed' = NotDropped
           /\ coordsPrev' = {[lat |-> wreq'[nextW].lat, lon |-> wreq'[nextW].lon]} ]_vars

\* Geolocation has failed while the request of an earlier position was in
\* flight.
C18_Witness ==
  /\ suppressed.op = "getLocation"
  /\ suppressed.why \in {"denied", "unsupported"}
  /\ \E i \in ReqIds : wreq[i].st = "inflight"
  /\ loading

\* C19 (as amended): after processForecast, for any sample series,
\* dailyForecast has at most 5 buckets, every bucket is of a day of the series,
\* no two buckets share a UTC calendar day and the buckets stand in the order
\* in which their days first appear in the series; their days are strictly
\* ascending when the series is in chronological order.
C19_DailyBoundedDistinctInOrder ==
  Processed =>
    /\ Len(dailyForecast) <= DailyLimit
    /\ \A i \in DOMAIN dailyForecast : DayOf(dailyForecast[i]) \in DaysOf(list)
    /\ \A i, j \in DOMAIN dailyForecast :
         i < j => /\ DayOf(dailyForecast[i]) # DayOf(dailyForecast[j])
                  /\ FirstOfDay(list, DayOf(dailyForecast[i]))
                       < FirstOfDay(list, DayOf(dailyForecast[j]))
    /\ Chronological(list) =>
         \A i, j \in DOMAIN dailyForecast :
           i < j => DayOf(dailyForecast[i]) < DayOf(dailyForecast[j])

\* C19's case: a chronological series of more than 5 days, cut to 5 buckets.
C19_Witness ==
  /\ Processed
  /\ Chronological(list)
  /\ Cardinality(DaysOf(list)) > DailyLimit
  /\ Len(dailyForecast) = DailyLimit

\* C19 (as stated): for ANY sample series, at most 5 buckets, days strictly
\* ascending, no two buckets of one day.
C19_DailyAscendingForAnySeries ==
  Processed =>
    /\ Len(dailyForecast) <= DailyLimit
    /\ \A i, j \in DOMAIN dailyForecast :
         i < j => DayOf(dailyForecast[i]) < DayOf(dailyForecast[j])
    /\ \A i, j \in DOMAIN dailyForecast :
         i # j => DayOf(dailyForecast[i]) # DayOf(dailyForecast[j])

\* C20: after processForecast, for every bucket and every sample of the
\* series on the bucket's UTC day, temp_min <= sample.temp <= temp_max, and
\* temp_min and temp_max are each the temp of some sample of that day.
C20_MinMaxBoundAndAttained ==
  Processed =>
    \A b \in DOMAIN dailyForecast :
      LET bucket == dailyForecast[b]
          ofDay == { i \in DOMAIN list : DayOf(list[i]) = DayOf(bucket) }
      IN /\ \A i \in ofDay : /\ bucket.main.temp_min <= list[i].main.temp
                              /\ list[i].main.temp <= bucket.main.temp_max
         /\ \E i \in ofDay : list[i].main.temp = bucket.main.temp_min
         /\ \E i \in ofDay : list[i].main.temp = bucket.main.temp_max

\* C20's case: a day whose first sample is its coldest, a later sample of
\* the same day, after a sample of another day, is its warmest.
C20_Witness ==
  /\ Processed
  /\ \E b \in DOMAIN dailyForecast, i, j \in DOMAIN list :
       /\ i + 1 < j
       /\ DayOf(list[i]) = DayOf(dailyForecast[b])
       /\ DayOf(list[j]) = DayOf(dailyForecast[b])
       /\ DayOf(list[i + 1]) # DayOf(dailyForecast[b])
       /\ dailyForecast[b].dt = list[i].dt
       /\ dailyForecast[b].main.temp = dailyForecast[b].main.temp_min
       /\ list[j].main.temp = dailyForecast[b].main.temp_max
       /\ dailyForecast[b].main.temp_min < dailyForecast[b].main.temp_max

\* C21 (as amended): after processForecast, hourlyForecast holds only samples
\* whose timestamp is strictly after now (one equal to now is left out), at
\* most 8 of them, in the order of the series; it is chronologically
\* ascending when the series is in chronological order.
C21_HourlyFutureBoundedInOrder ==
  Processed =>
    /\ \A i \in DOMAIN hourlyForecast :
         /\ hourlyForecast[i].dt * MsPerSec > now
         /\ \E p \in DOMAIN list : list[p] = hourlyForecast[i]
    /\ Len(hourlyForecast) <= HourlyLimit
    /\ InOrderOf(hourlyForecast, list)
    /\ Chronological(list) => Chronological(hourlyForecast)

\* C21's case: a chronological series whose first sample is at now exactly and
\* is left out, with more than 8 samples after now, cut to 8.
C21_Witness ==
  /\ Processed
  /\ Chronological(list)
  /\ list # <<>>
  /\ list[1].dt * MsPerSec = now
  /\ \A i \in DOMAIN hourlyForecast : hourlyForecast[i] # list[1]
  /\ Cardinality(After(list, now)) > HourlyLimit
  /\ Len(hourlyForecast) = HourlyLimit

\* C21 (as stated): only samples after now, at most 8, chronologically
\* ascending, for any series.
C21_HourlyAscendingForAnySeries ==
  Processed =>
    /\ \A i \in DOMAIN hourlyForecast : hourlyForecast[i].dt * MsPerSec > now
    /\ Len(hourlyForecast) <= HourlyLimit
    /\ Chronological(hourlyForecast)

C23_NeverPads ==
  Processed =>
    /\ Len(dailyForecast) = Min(DailyLimit, Cardinality(DaysOf(list)))
    /\ \A b \in DOMAIN dailyForecast :
         /\ DayOf(dailyForecast[b]) \in DaysOf(list)
         /\ Cardinality({ d \in DaysOf(list) :
                FirstOfDay(list, d) < FirstOfDay(list, DayOf(dailyForecast[b])) }) = b - 1
    /\ Len(hourlyForecast) = Min(HourlyLimit, Cardinality(After(list, now)))
    /\ list = <<>> => dailyForecast = <<>> /\ hourlyForecast = <<>>

\* C23's case: more than 5 days and more than 8 samples after now, with a day
\* that comes back after another one.
C23_Witness ==
  /\ Processed
  /\ Cardinality(DaysOf(list)) > DailyLimit
  /\ Cardinality(After(list, now)) > HourlyLimit
  /\ Len(dailyForecast) = DailyLimit
  /\ Len(hourlyForecast) = HourlyLimit
  /\ ~Chronological(list)

\* C24: processForecast leaves every sample of the series as it was; the
\* temp_max/temp_min overlay is on the buckets only.
C24_InputNotMutated ==
  [][ now' # now => list' = list ]_vars

\* C24's case: processForecast has built a bucket that differs from the sample
\* it represents, which is still in the series with its own temp_max.
C24_Witness ==
  /\ Processed
  /\ \E b \in DOMAIN dailyForecast :
       LET first == list[FirstOfDay(list, DayOf(dailyForecast[b]))]
       IN /\ dailyForecast[b] # first
          /\ first.main.temp_max = first.main.temp
          /\ first.main.temp_min = first.main.temp

\* C25: whatever the data type and the series (empty, constant, humidity at or
\* beyond 0 and 100, wind at 0), the scale the graph is drawn with has
\* max > min.
C25_ScaleMaxAboveMin ==
  graph.drawn => graph.max > graph.min

\* C25's case: a constant humidity series beyond 100 %, whose padded and
\* clamped maximum is below its padded minimum.
C25_Witness ==
  /\ graph.drawn
  /\ selectedDataType = "humidity"
  /\ Len(hourlyForecast) >= 2
  /\ \A i \in DOMAIN hourlyForecast : hourlyForecast[i].main.humidity = 1100
  /\ graph.max = graph.min + 100

\* C26: the scale is the padding policy applied to the least value m and the
\* greatest value M (in tenths): temperature (m - 1.5, M + 1.5); pressure
\* (m - 3, M + 3); humidity (max(m - 5, 0), min(M + 5, 100)); wind
\* (max(m - 1, 0), M + 2) when M > m and (max(m - 2, 0), M + 2) when M = m;
\* then max = min + 10 if max <= min; (0, 10) for the empty series.
C26_ScalePaddingPolicy ==
  graph.drawn =>
    IF PlotValues = {}
      THEN graph.min = 0 /\ graph.max = 100
      ELSE LET m == Least(PlotValues)
               M == Max(PlotValues)
               lo == CASE selectedDataType = "temp" -> m - 15
                       [] selectedDataType = "pressure" -> m - 30
                       [] selectedDataType = "humidity" -> IF m - 50 > 0 THEN m - 50 ELSE 0
                       [] selectedDataType = "wind" ->
                            IF M > m THEN (IF m - 10 > 0 THEN m - 10 ELSE 0)
                                     ELSE (IF m - 20 > 0 THEN m - 20 ELSE 0)
               hi == CASE selectedDataType = "temp" -> M + 15
                       [] selectedDataType = "pressure" -> M + 30
                       [] selectedDataType = "humidity" -> IF M + 50 < 1000 THEN M + 50 ELSE 1000
                       [] selectedDataType = "wind" -> M + 20
           IN /\ graph.min = lo
              /\ graph.max = IF hi <= lo THEN lo + 100 ELSE hi

\* C26's case: a constant wind series well above 0, padded by 2 below.
C26_Witness ==
  /\ graph.drawn
  /\ selectedDataType = "wind"
  /\ Len(hourlyForecast) >= 2
  /\ \A i \in DOMAIN hourlyForecast : hourlyForecast[i].wind.speed = 120
  /\ graph.min = 100
  /\ graph.max = 140

\* C27: for the series drawn, y is strictly decreasing in the value: any two
\* values v1 < v2 (those of the series, the ends of the scale and the values a
\* unit beyond them) have y(v1) > y(v2); y(scale.min) = 270 and
\* y(scale.max) = 50.
C27_YStrictlyDecreasing ==
  graph.drawn =>
    LET probes == PlotValues \cup { graph.min, graph.max, graph.min - 10, graph.max + 10 }
    IN /\ \A v1, v2 \in probes :
            v1 < v2 => FracLess(GetHourlyYPosition(v2), GetHourlyYPosition(v1))
       /\ GetHourlyYPosition(graph.min) = Whole(270)
       /\ GetHourlyYPosition(graph.max) = Whole(50)

\* C27's case: a drawn series with two different values, the greater drawn
\* higher (smaller y) than the lesser, both inside the drawing span.
C27_Witness ==
  /\ graph.drawn
  /\ \E v1, v2 \in PlotValues :
       /\ v1 < v2
       /\ FracLess(GetHourlyYPosition(v2), GetHourlyYPosition(v1))
       /\ FracLess(Whole(50), GetHourlyYPosition(v2))
       /\ FracLess(GetHourlyYPosition(v1), Whole(270))

\* C28: the polyline's points string is empty for 0 or 1 points; for n >= 2
\* points it lists exactly n x,y pairs in point order (the i-th pair's y is
\* that of the i-th value), x strictly increasing with the index, the first
\* x 50 and the last x 1150.
C28_PolylinePoints ==
  graph.drawn =>
    LET n == Len(hourlyForecast)
        vs == Vertices(graph.line)
    IN IF n < 2
         THEN graph.line = <<>>
         ELSE /\ WellFormed(graph.line)
              /\ Len(vs) = n
              /\ \A i \in DOMAIN vs :
                   vs[i].y = GetHourlyYPosition(HourlyDataPoints[i].value)
              /\ \A i, j \in DOMAIN vs : i < j => FracLess(vs[i].x, vs[j].x)
              /\ vs[1].x = Whole(50)
              /\ vs[n].x = Whole(1150)

\* C28's case: a drawn series of at least 4 points, whose inner x are not
\* whole numbers.
C28_Witness ==
  /\ graph.drawn
  /\ Len(hourlyForecast) >= 4
  /\ Len(Vertices(graph.line)) = Len(hourlyForecast)
  /\ Vertices(graph.line)[2].x.den # 1

\* C29: the polygon's points string is empty for fewer than 2 points; for
\* n >= 2 points it is the n vertices of the polyline followed by exactly two
\* closing vertices, (x of the last point, 320) then (x of the first point,
\* 320): n + 2 vertices.
C29_PolygonPoints ==
  graph.drawn =>
    LET n == Len(hourlyForecast)
        vs == Vertices(graph.polygon)
        line == Vertices(graph.line)
    IN IF n < 2
         THEN graph.polygon = <<>>
         ELSE /\ WellFormed(graph.polygon)
              /\ Len(vs) = n + 2
              /\ SubSeq(vs, 1, n) = line
              /\ vs[n + 1] = [x |-> line[n].x, y |-> Whole(320)]
              /\ vs[n + 2] = [x |-> line[1].x, y |-> Whole(320)]

\* C29's case: a drawn polygon of at least 3 points and its two closing
\* vertices.
C29_Witness ==
  /\ graph.drawn
  /\ Len(hourlyForecast) >= 3
  /\ Len(Vertices(graph.polygon)) = Len(hourlyForecast) + 2

\* C30: the time calculateCityTime returns is deviceNow +
\* deviceTimezoneOffsetMinutes * 60000 + utcOffsetSeconds * 1000; it is the
\* device's own instant exactly when utcOffsetSeconds =
\* -60 * deviceTimezoneOffsetMinutes; and for the same device reading, two
\* offsets d seconds apart give times d * 1000 ms apart.
C30_CityTime ==
  clock.read =>
    /\ clock.cityTime = clock.deviceNow + clock.zoneOffset * 60000 + clock.timezone * 1000
    /\ (clock.cityTime = clock.deviceNow) <=> (clock.timezone = -60 * clock.zoneOffset)
    /\ \A other \in Timezones :
         CityTime(clock.deviceNow, clock.zoneOffset, other) - clock.cityTime
           = (other - clock.timezone) * 1000

\* C30's case: a device west of UTC asked for a city east of UTC, whose time
\* is ahead of the device's by both offsets.
C30_Witness ==
  /\ clock.read
  /\ clock.zoneOffset = 300
  /\ clock.timezone = 19800
  /\ clock.cityTime = clock.deviceNow + 18000000 + 19800000

\* C33: a failed weather fetch does not end its channel. Once a request of a
\* channel has failed, a value that passes the channel's dedup (and, on the
\* city channel, the blank filter) still sets loading and issues a request,
\* and the success of a request of that channel issued after the failure
\* becomes weather.
C33_FailureKeepsChannel ==
  [][ /\ ( /\ \E j \in ReqIds : wreq[j].chan = "city" /\ wreq[j].st = "fail"
           /\ Emits /\ debLast \notin cityPrev /\ ~AllWs(debLast) )
        => (Issued("city") /\ loading' /\ wreq'[nextW].st = "inflight")
      /\ ( /\ \E j \in ReqIds : wreq[j].chan = "coords" /\ wreq[j].st = "fail"
           /\ coordsPrev' # coordsPrev )
        => (Issued("coords") /\ loading' /\ wreq'[nextW].st = "inflight")
      /\ \A i \in ReqIds :
           ( /\ wreq[i].st = "inflight" /\ wreq'[i].st = "ok"
             /\ \E j \in ReqIds : j < i /\ wreq[j].chan = wreq[i].chan /\ wreq[j].st = "fail" )
           => weather'.req = i ]_vars

\* A request failed, a later request of the same channel succeeded and its
\* snapshot is weather.
C33_Witness ==
  \E a, b \in ReqIds :
    /\ a < b
    /\ wreq[a].chan = wreq[b].chan
    /\ wreq[a].st = "fail"
    /\ wreq[b].st = "ok"
    /\ weather.req = b

\* C36: on the city channel a request is superseded when the debounce emits,
\* not when searchByCity is called. The call leaves the request in flight and
\* weather as they are; a success arriving while the debounce timer of a newer
\* call still runs becomes weather and starts its forecast fetch; before
\* teardown a city request loses its subscriber only in the step in which the
\* debounce emits and a new city request is issued.
C36_SupersededAtEmission ==
  [][ /\ CallsSearchByCity => UNCHANGED << wreq, nextW, weather, freq, nextF >>
      /\ \A i \in ReqIds :
           /\ ( /\ debActive
                /\ wreq[i].chan = "city"
                /\ wreq[i].st = "inflight"
                /\ wreq'[i].st = "ok" )
              => /\ weather'.req = i
                 /\ nextF' = nextF + 1
                 /\ freq'[nextF].st = "inflight"
                 /\ freq'[nextF].forW = i
           /\ ( /\ wreq[i].chan = "city"
                /\ wreq[i].st = "inflight"
                /\ wreq'[i].st = "stale"
                /\ ~destroyed' )
              => (Emits /\ Issued("city")) ]_vars

\* While the debounce timer of a newer name runs, the earlier city request
\* has been answered, its snapshot is weather and its forecast fetch is out.
C36_Witness ==
  /\ debActive
  /\ ~AllWs(debLast)
  /\ debLast \notin cityPrev
  /\ lastCity.age > 0
  /\ \E i, k \in ReqIds :
       /\ wreq[i].chan = "city"
       /\ wreq[i].st = "ok"
       /\ weather.req = i
       /\ freq[k].forW = i
       /\ freq[k].st = "inflight"

C38_StoredForecastNonEmpty ==
  forecast # NoForecast =>
    /\ forecast.req \in ReqIds
    /\ freq[forecast.req].st = "ok"

\* A forecast is stored and a later forecast request came back empty.
C38_Witness ==
  /\ forecast # NoForecast
  /\ freq[forecast.req].st = "ok"
  /\ \E k \in ReqIds : k > forecast.req /\ freq[k].st = "empty"

\* C34: after processForecast, hourlyForecast is, in the order of the
\* series, the first min(8, k) of the k samples whose timestamp is after now:
\* its i-th sample is the i-th such sample of the series, so none of them is
\* skipped and a past sample standing between them takes none of the 8 places.
C34_HourlyFirstFutureSamples ==
  Processed =>
    /\ Len(hourlyForecast) = Min(HourlyLimit, Cardinality(After(list, now)))
    /\ \A i \in DOMAIN hourlyForecast :
         hourlyForecast[i] = list[NthAfter(list, now, i)]

\* C34's case: 8 samples kept, the last of them standing beyond the 8th place
\* of the series because past samples stand between the future ones.
C34_Witness ==
  /\ Processed
  /\ Len(hourlyForecast) = HourlyLimit
  /\ NthAfter(list, now, HourlyLimit) > HourlyLimit + 1
  /\ \E p \in DOMAIN list :
       /\ p \notin After(list, now)
       /\ p > NthAfter(list, now, 1)
       /\ p < NthAfter(list, now, HourlyLimit)
  /\ hourlyForecast[HourlyLimit].dt = list[NthAfter(list, now, HourlyLimit)].dt

\* C39: for a series within the physical range (humidity 0 to 100, wind from
\* 0, any temperature or pressure), every value of the series lies between
\* the ends of the scale and its y lies between 50 and 270; and for
\* temperature and pressure the scale is the padded one (span M - m + 3 and
\* M - m + 6), so max = min + 10 is never substituted.
C39_ValuesInsideScale ==
  (graph.drawn /\ InPhysicalRange) =>
    /\ \A v \in PlotValues :
         /\ graph.min <= v
         /\ v <= graph.max
         /\ ~FracLess(GetHourlyYPosition(v), Whole(50))
         /\ ~FracLess(Whole(270), GetHourlyYPosition(v))
    /\ (PlotValues # {} /\ selectedDataType = "temp") =>
         graph.max - graph.min = Max(PlotValues) - Least(PlotValues) + 30
    /\ (PlotValues # {} /\ selectedDataType = "pressure") =>
         graph.max - graph.min = Max(PlotValues) - Least(PlotValues) + 60

\* C39's case: a humidity series reaching both 0 and 100, whose values at the
\* clamped ends of the scale are drawn at y = 270 and y = 50.
C39_Witness ==
  /\ graph.drawn
  /\ selectedDataType = "humidity"
  /\ InPhysicalRange
  /\ 0 \in PlotValues
  /\ 1000 \in PlotValues
  /\ graph.min = 0
  /\ graph.max = 1000
  /\ GetHourlyYPosition(0) = Whole(270)
  /\ GetHourlyYPosition(1000) = Whole(50)

\* C35: a non-blank city name waiting in the debounce is fetched unless a
\* non-blank call follows within 500 ms; a whitespace-only searchByCity call
\* made while it waits does not cancel it: the name is still the one the
\* debounce will emit.
C35_BlankCallKeepsPending ==
  [][ ( /\ CallsSearchByCity
        /\ debActive
        /\ ~AllWs(debLast)
        /\ AllWs(lastCity'.name) )
      => debLast' = debLast ]_vars

\* C31: whenever one of the page's clocks shows a new time while a snapshot
\* is current, the time is calculateCityTime of the snapshot's timezone, for
\* every timezone, 0 included; the device's own time is shown when no snapshot
\* is current.
C31_CityTimeForEveryOffset ==
  [][ /\ cityTimestampStream' # cityTimestampStream =>
           cityTimestampStream'.time =
             IF snapshot'.current
               THEN CityTime(device.now, device.zoneOffset, snapshot'.timezone)
               ELSE device.now
      /\ cityTimestamp' # cityTimestamp =>
           cityTimestamp' =
             IF snapshot.current
               THEN CityTime(device.now, device.zoneOffset, snapshot.timezone)
               ELSE device.now ]_vars

\* C32: the 1-second timer of ngOnInit is cancelled by ngOnDestroy: once
\* ngOnDestroy has run, no step changes cityTimestamp.
C32_TimerCancelledOnTeardown ==
  [][ componentDestroyed => cityTimestamp' = cityTimestamp ]_vars

\* C32's case: the timer ran and was closed by ngOnDestroy, the device's clock
\* has moved on and cityTimestamp is still the time of the last tick.
C32_Witness ==
  /\ componentDestroyed
  /\ timerSubscription = "closed"
  /\ cityTimestamp > 0
  /\ cityTimestamp < device.now

\* C40: in the daily chart drawn from the buckets of processForecast, the
\* ends of the axis are the greatest temp_max and the least temp_min of the
\* buckets, the i-th vertex of the max curve is at the y of the i-th bucket's
\* temp_max and that of the min curve at the y of its temp_min, on that axis,
\* whatever the values, 0 included.
C40_DailyChartPlotsExtremes ==
  (dailyGraph.drawn /\ dailyForecast # <<>>) =>
    LET hi == Max({ dailyForecast[i].main.temp_max : i \in DOMAIN dailyForecast })
        lo == Least({ dailyForecast[i].main.temp_min : i \in DOMAIN dailyForecast })
        top == Vertices(dailyGraph.pointsMax)
        bottom == Vertices(dailyGraph.pointsMin)
    IN /\ dailyGraph.max = hi
       /\ dailyGraph.min = lo
       /\ Len(top) = Len(dailyForecast)
       /\ Len(bottom) = Len(dailyForecast)
       /\ \A i \in DOMAIN dailyForecast :
            /\ top[i].y = YOnAxis(dailyForecast[i].main.temp_max, lo, hi)
            /\ bottom[i].y = YOnAxis(dailyForecast[i].main.temp_min, lo, hi)

====
